---------------------------- MODULE Spec2Model ----------------------------
(***************************************************************************)
(* Business-registration wizard (BusinessPage: step controller + draft     *)
(* store in sessionStorage) and the Firestore data-access layer            *)
(* (utils/firebase.ts).                                                    *)
(*                                                                         *)
(* JavaScript values are tagged records [t |-> <type>, v |-> <payload>]:   *)
(* an object's payload is a function from its own keys to values, an       *)
(* array's payload is a sequence.                                          *)
(***************************************************************************)
EXTENDS Integers, Sequences, FiniteSets, TLC

VARIABLES
    currentStep,            \* useState(1)
    formData,               \* useState<FormData>({})
    hasRegisteredBusiness,  \* useState(false)
    showRegistration,       \* searchParams.get("register") === "true"
    sessionStorage,         \* the tab's sessionStorage: key -> stored string
    renderedStep,           \* currentStep as captured by the handlers of the last render
    event,                  \* history: the last page event and the one before it
    docs,                   \* Firestore: business documents by <<userId, businessId>>
    nextId,                 \* Firestore: counter behind the auto-generated document ids
    clock,                  \* wall clock (Timestamp.now(), serverTimestamp())
    dbEvent,                \* history: the last data-access call and its outcome
    uploads,                \* uploadDocument calls: where each one stands
    bucket,                 \* Firebase Storage: the object stored at each path
    checkout                \* the checkout endpoint: the request in hand and its response

vars == <<currentStep, formData, hasRegisteredBusiness, showRegistration,
          sessionStorage, renderedStep, event, docs, nextId, clock, dbEvent,
          uploads, bucket, checkout>>

pageVars == <<currentStep, formData, hasRegisteredBusiness, showRegistration,
              sessionStorage, renderedStep, event>>

dbVars == <<docs, nextId, clock, dbEvent>>

---------------------------------------------------------------------------
(* JavaScript values *)

Undefined == [t |-> "undefined", v |-> <<>>]
Null == [t |-> "null", v |-> <<>>]
FileObj == [t |-> "file", v |-> <<>>]
Str(s) == [t |-> "string", v |-> s]
Num(n) == [t |-> "number", v |-> n]
Bool(b) == [t |-> "boolean", v |-> b]
Obj(f) == [t |-> "object", v |-> f]
Arr(s) == [t |-> "array", v |-> s]
EmptyObj == Obj(<<>>)

\* o.k : undefined when o has no own property k
Get(o, k) == IF k \in DOMAIN o.v THEN o.v[k] ELSE Undefined

\* o.k = val
Put(o, k, val) == Obj([x \in DOMAIN o.v \cup {k} |-> IF x = k THEN val ELSE o.v[x]])

\* Object.assign(target, source)
ObjectAssign(target, source) ==
    IF source.t # "object" THEN target
    ELSE Obj([x \in DOMAIN target.v \cup DOMAIN source.v |->
                 IF x \in DOMAIN source.v THEN source.v[x] ELSE target.v[x]])

\* if (x) ... for the values getItem returns: null, or a string
Truthy(x) == x.t = "string" /\ Len(x.v) > 0

---------------------------------------------------------------------------
(* Number.prototype.toString and Number.parseInt(_, 10) on strings of characters *)

DigitChars == <<"0", "1", "2", "3", "4", "5", "6", "7", "8", "9">>

RECURSIVE NatToString(_)
NatToString(n) ==
    IF n < 10 THEN <<DigitChars[n + 1]>>
    ELSE Append(NatToString(n \div 10), DigitChars[(n % 10) + 1])

NumberToString(n) == IF n < 0 THEN <<"-">> \o NatToString(-n) ELSE NatToString(n)

IsDigit(c) == \E d \in 1..10 : DigitChars[d] = c
DigitValue(c) == (CHOOSE d \in 1..10 : DigitChars[d] = c) - 1

\* the value of the longest prefix of s made of digits, continuing from acc
RECURSIVE ParseDigits(_, _)
ParseDigits(s, acc) ==
    IF s = <<>> \/ ~IsDigit(Head(s)) THEN acc
    ELSE ParseDigits(Tail(s), 10 * acc + DigitValue(Head(s)))

NaN == [t |-> "NaN", v |-> <<>>]

ParseInt(s) ==
    LET neg == s # <<>> /\ Head(s) = "-"
        body == IF s # <<>> /\ Head(s) \in {"-", "+"} THEN Tail(s) ELSE s
    IN  IF body = <<>> \/ ~IsDigit(Head(body)) THEN NaN
        ELSE IF neg THEN 0 - ParseDigits(body, 0) ELSE ParseDigits(body, 0)

---------------------------------------------------------------------------
(* JSON.stringify / JSON.parse.  The text is kept as the JSON document it  *)
(* spells: stringify drops properties holding undefined, writes undefined  *)
(* array elements as null and writes a File (no own enumerable property)   *)
(* as {}.                                                                  *)

RECURSIVE JSONValue(_)
JSONValue(x) ==
    CASE x.t = "object" ->
            Obj([k \in {k \in DOMAIN x.v : x.v[k].t # "undefined"} |-> JSONValue(x.v[k])])
      [] x.t = "array" ->
            Arr([i \in 1..Len(x.v) |->
                    IF x.v[i].t = "undefined" THEN Null ELSE JSONValue(x.v[i])])
      [] x.t = "file" -> EmptyObj
      [] OTHER -> x

JSONStringify(x) == [t |-> "string", v |-> <<JSONValue(x)>>]

JSONParse(text) == text.v[1]

---------------------------------------------------------------------------
(* sessionStorage: the entries present are the function's domain *)

StepKey == "businessRegistrationStep"
DataKey == "businessRegistrationData"

GetItem(store, k) == IF k \in DOMAIN store THEN store[k] ELSE Null
SetItem(store, k, text) ==
    [x \in DOMAIN store \cup {k} |-> IF x = k THEN text ELSE store[x]]
RemoveItem(store, k) == [x \in DOMAIN store \ {k} |-> store[x]]

---------------------------------------------------------------------------
(* BusinessPage: the step controller *)

\* { k1: o.k1, k2: o.k2, ... } as the object literals of handleNext build it
Pick(o, keys) == Obj([k \in keys |-> Get(o, k)])

OwnerKeys == {"id", "fullName", "ownership", "isCEO", "birthDate", "document"}
AddressKeys == {"street", "city", "state", "postalCode", "country"}

\* the switch with case 2 assigning case 3's field
mergeStepDataWrongField(prev, step, stepData) ==
    CASE step = 1 -> Put(prev, "country", Pick(stepData, {"name"}))
      [] step = 2 -> Put(prev, "company", Pick(stepData, {"name", "price"}))
      [] step = 3 -> Put(prev, "company", Pick(stepData, {"name", "type", "industry"}))
      [] step = 4 -> Put(prev, "owner",
                         Arr([i \in 1..Len(stepData.v) |-> Pick(stepData.v[i], OwnerKeys)]))
      [] step = 5 -> Put(prev, "address", Pick(stepData, AddressKeys))
      [] OTHER -> ObjectAssign(prev, stepData)

\* the updater handleNext passes to setFormData: prev is the latest draft,
\* step is the currentStep the handler captured when it was rendered
mergeStepData(prev, step, stepData) ==
    CASE step = 1 -> Put(prev, "country", Pick(stepData, {"name"}))
      [] step = 2 -> Put(prev, "package", Pick(stepData, {"name", "price"}))
      [] step = 3 -> Put(prev, "company", Pick(stepData, {"name", "type", "industry"}))
      [] step = 4 -> Put(prev, "owner",
                         Arr([i \in 1..Len(stepData.v) |-> Pick(stepData.v[i], OwnerKeys)]))
      [] step = 5 -> Put(prev, "address", Pick(stepData, AddressKeys))
      [] OTHER -> ObjectAssign(prev, stepData)

handleNext(stepData) ==
    LET newData == mergeStepData(formData, renderedStep, stepData)
        newStep == currentStep + 1
    IN  /\ formData' = newData
        /\ currentStep' = newStep
        /\ sessionStorage' =
             SetItem(SetItem(sessionStorage, DataKey, JSONStringify(newData)),
                     StepKey, Str(NumberToString(newStep)))
        /\ UNCHANGED <<hasRegisteredBusiness, showRegistration>>

\* handleBack without its step-1 branch
handleBackNoExit ==
    LET newStep == currentStep - 1
    IN  /\ currentStep' = newStep
        /\ sessionStorage' = SetItem(sessionStorage, StepKey, Str(NumberToString(newStep)))
        /\ UNCHANGED <<formData, hasRegisteredBusiness, showRegistration>>

\* handleBack clearing the session when it leaves the wizard
handleBackPurging ==
    IF renderedStep = 1
    THEN /\ showRegistration' = FALSE
         /\ sessionStorage' = RemoveItem(RemoveItem(sessionStorage, DataKey), StepKey)
         /\ UNCHANGED <<currentStep, formData, hasRegisteredBusiness>>
    ELSE LET newStep == currentStep - 1
         IN  /\ currentStep' = newStep
             /\ sessionStorage' = SetItem(sessionStorage, StepKey, Str(NumberToString(newStep)))
             /\ UNCHANGED <<formData, hasRegisteredBusiness, showRegistration>>

handleBack ==
    IF renderedStep = 1
    THEN /\ showRegistration' = FALSE      \* router.push("/dashboard/business")
         /\ UNCHANGED <<currentStep, formData, hasRegisteredBusiness, sessionStorage>>
    ELSE LET newStep == currentStep - 1
         IN  /\ currentStep' = newStep
             /\ sessionStorage' = SetItem(sessionStorage, StepKey, Str(NumberToString(newStep)))
             /\ UNCHANGED <<formData, hasRegisteredBusiness, showRegistration>>

\* handleEdit starting the draft over
handleEditClearing(step) ==
    /\ currentStep' = step
    /\ formData' = EmptyObj
    /\ sessionStorage' = SetItem(sessionStorage, StepKey, Str(NumberToString(step)))
    /\ UNCHANGED <<hasRegisteredBusiness, showRegistration>>

handleEdit(step) ==
    /\ currentStep' = step
    /\ sessionStorage' = SetItem(sessionStorage, StepKey, Str(NumberToString(step)))
    /\ UNCHANGED <<formData, hasRegisteredBusiness, showRegistration>>

\* handlePaymentComplete forgetting the step entry
handlePaymentCompleteKeepsStep ==
    /\ hasRegisteredBusiness' = TRUE
    /\ currentStep' = 8
    /\ sessionStorage' = RemoveItem(sessionStorage, DataKey)
    /\ UNCHANGED <<formData, showRegistration>>

handlePaymentComplete ==
    /\ hasRegisteredBusiness' = TRUE
    /\ currentStep' = 8
    /\ sessionStorage' = RemoveItem(RemoveItem(sessionStorage, DataKey), StepKey)
    /\ UNCHANGED <<formData, showRegistration>>

\* Review's onNext: () => setCurrentStep(7)
reviewOnNext ==
    /\ currentStep' = 7
    /\ UNCHANGED <<formData, hasRegisteredBusiness, showRegistration, sessionStorage>>

\* The two effects of BusinessPage as they run when the page is mounted with
\* ?register=<register> (a first visit, or a reload of the tab): state starts from
\* the useState defaults, the first effect restores what sessionStorage holds and
\* pushes ?register=true, the second writes the step once the wizard is shown.
mountEffects(register) ==
    LET savedStep == GetItem(sessionStorage, StepKey)
        savedData == GetItem(sessionStorage, DataKey)
        step == IF Truthy(savedStep) THEN ParseInt(savedStep.v) ELSE 1
        data == IF Truthy(savedData) THEN JSONParse(savedData) ELSE EmptyObj
        shown == register \/ Truthy(savedStep) \/ Truthy(savedData)
    IN  /\ currentStep' = step
        /\ formData' = data
        /\ hasRegisteredBusiness' = FALSE
        /\ showRegistration' = shown
        /\ sessionStorage' =
             IF shown THEN SetItem(sessionStorage, StepKey, Str(NumberToString(step)))
             ELSE sessionStorage

\* the effect on [showRegistration] when the query string turns to register=true
showRegistrationEffect ==
    /\ showRegistration' = TRUE
    /\ sessionStorage' = SetItem(sessionStorage, StepKey, Str(NumberToString(currentStep)))
    /\ UNCHANGED <<currentStep, formData, hasRegisteredBusiness>>

\* React commits the new state: the next handlers capture the new currentStep
Render == renderedStep' = currentStep'

Record(op, arg) ==
    /\ event' = [op |-> op, at |-> renderedStep, arg |-> arg, after |-> event.op]
    /\ UNCHANGED <<docs, nextId, clock, dbEvent, uploads, bucket, checkout>>

---------------------------------------------------------------------------
(* What the step views hand to onNext.  The controller validates nothing,  *)
(* so the inputs include data with a field missing, with a field too many  *)
(* and with an in-memory File.                                             *)

OwnerAnn == Obj([id |-> Str("o1"), fullName |-> Str("Ann"), ownership |-> Str("100"),
                 isCEO |-> Bool(TRUE), birthDate |-> Str("1990-01-01"),
                 document |-> Null])
OwnerBob == Obj([id |-> Str("o2"), fullName |-> Str("Bob"), ownership |-> Str("40"),
                 document |-> FileObj])

StepInputs(step) ==
    CASE step = 1 -> {Obj([name |-> Str("US")]),
                      Obj([name |-> Str("DE"), flag |-> Str("de.png")])}
      [] step = 2 -> {Obj([name |-> Str("Basic"), price |-> Num(99)]),
                      Obj([name |-> Str("Pro")])}
      [] step = 3 -> {Obj([name |-> Str("Acme"), type |-> Str("LLC"), industry |-> Str("Tech")]),
                      Obj([name |-> Str("Bolt"), type |-> Str("Corp"), industry |-> Str("Food")])}
      [] step = 4 -> {Arr(<<OwnerAnn>>), Arr(<<OwnerAnn, OwnerBob>>)}
      [] step = 5 -> {Obj([street |-> Str("1 Main St"), city |-> Str("Austin"),
                           state |-> Str("TX"), postalCode |-> Str("73301"),
                           country |-> Str("US")]),
                      Obj([street |-> Str("2 Elm St"), city |-> Str("Berlin"),
                           state |-> Str("BE"), postalCode |-> Str("10115"),
                           country |-> Str("DE")])}
      [] OTHER -> {}

\* the steps Review's edit links name
EditTargets == 1..7

---------------------------------------------------------------------------
(* utils/firebase.ts: the data-access layer over Firestore *)

MaxDocs == 1     \* documents created in a run
MaxClock == 2    \* instants the clock passes through

Users == {"u1"}
BusinessIds == 1..MaxDocs

\* Timestamp.now(): an instance of the SDK's Timestamp class
Timestamp(n) == [t |-> "timestamp", v |-> n]
\* serverTimestamp(): the SDK's sentinel, an instance of a FieldValue class
ServerTimestamp == [t |-> "fieldvalue", v |-> "serverTimestamp"]

\* Object.entries(x) of a non-null value with typeof x === 'object': the own
\* enumerable properties, which for an SDK class instance are its fields
ObjectEntries(x) ==
    CASE x.t = "object" -> x.v
      [] x.t = "timestamp" -> [seconds |-> Num(x.v), nanoseconds |-> Num(0)]
      [] x.t = "fieldvalue" -> [_methodName |-> Str(x.v)]
      [] x.t = "file" -> <<>>

IsObjectLike(x) == x.t \in {"object", "timestamp", "fieldvalue", "file"}

\* cleanFirestoreData that does not descend into arrays
RECURSIVE cleanFirestoreDataSkippingArrays(_)
cleanFirestoreDataSkippingArrays(data) ==
    IF IsObjectLike(data)
    THEN LET entries == ObjectEntries(data)
         IN  Obj([k \in {k \in DOMAIN entries : entries[k] # Undefined} |->
                     cleanFirestoreDataSkippingArrays(entries[k])])
    ELSE data

RECURSIVE cleanFirestoreData(_)
cleanFirestoreData(data) ==
    CASE data.t = "array" ->
            Arr([i \in 1..Len(data.v) |-> cleanFirestoreData(data.v[i])])
      [] IsObjectLike(data) ->
            LET entries == ObjectEntries(data)
            IN  Obj([k \in {k \in DOMAIN entries : entries[k] # Undefined} |->
                        cleanFirestoreData(entries[k])])
      [] OTHER -> data

\* undefined somewhere in x: the SDK refuses the write ("Unsupported field value")
RECURSIVE HasUndefined(_)
HasUndefined(x) ==
    CASE x.t = "undefined" -> TRUE
      [] x.t = "object" -> \E k \in DOMAIN x.v : HasUndefined(x.v[k])
      [] x.t = "array" -> \E i \in 1..Len(x.v) : HasUndefined(x.v[i])
      [] OTHER -> FALSE

\* what the server stores for the fields of a write: a sentinel that reaches it
\* becomes the server's time
StoredFields(data) ==
    [k \in DOMAIN data.v |->
        IF data.v[k].t = "fieldvalue" THEN Timestamp(clock) ELSE data.v[k]]

Path(userId, businessId) == <<userId, businessId>>

\* setDoc(ref, data) on a new reference: the writes it accepts, and the document
setDocAccepts(data) == ~HasUndefined(data)
setDoc(path, data) ==
    [p \in DOMAIN docs \cup {path} |->
        IF p = path THEN Obj(StoredFields(data)) ELSE docs[p]]

\* updateDoc(ref, data) replacing the document instead of merging into it
updateDocReplacing(path, data) ==
    [p \in DOMAIN docs |-> IF p = path THEN Obj(StoredFields(data)) ELSE docs[p]]

\* updateDoc(ref, data): fails on a missing document, else replaces the fields given
updateDocAccepts(path, data) == path \in DOMAIN docs /\ ~HasUndefined(data)
updateDoc(path, data) ==
    [p \in DOMAIN docs |->
        IF p = path THEN ObjectAssign(docs[p], Obj(StoredFields(data))) ELSE docs[p]]

RecordDb(op, userId, businessId, arg, ok) ==
    /\ dbEvent' = [op |-> op, user |-> userId, id |-> businessId, arg |-> arg, ok |-> ok]
    /\ UNCHANGED <<currentStep, formData, hasRegisteredBusiness, showRegistration,
                   sessionStorage, renderedStep, event>>
    /\ UNCHANGED <<uploads, bucket, checkout>>

\* the object saveBusinessDraft formats, with the caller's status spread last
formatDraftStatusFromCaller(businessData) ==
    ObjectAssign(Obj([createdAt |-> ServerTimestamp, updatedAt |-> ServerTimestamp,
                      status |-> Str("draft")]),
                 businessData)

formatDraft(businessData) ==
    ObjectAssign(businessData,
                 Obj([createdAt |-> ServerTimestamp, updatedAt |-> ServerTimestamp,
                      status |-> Str("draft")]))

saveBusinessDraft(userId, businessData) ==
    LET data == cleanFirestoreData(formatDraft(businessData))
        path == Path(userId, nextId)
    IN  /\ nextId <= MaxDocs
        /\ nextId' = nextId + 1
        /\ docs' = IF setDocAccepts(data) THEN setDoc(path, data) ELSE docs
        /\ UNCHANGED clock
        /\ RecordDb("saveBusinessDraft", userId, nextId, businessData, setDocAccepts(data))

completeBusinessRegistration(userId, businessId, paymentDetails) ==
    LET now == Timestamp(clock)
        formattedPaymentDetails == ObjectAssign(paymentDetails, Obj([createdAt |-> now]))
        data == cleanFirestoreData(Obj([paymentDetails |-> formattedPaymentDetails,
                                        status |-> Str("completed"),
                                        updatedAt |-> now]))
        path == Path(userId, businessId)
    IN  /\ docs' = IF updateDocAccepts(path, data) THEN updateDoc(path, data) ELSE docs
        /\ UNCHANGED <<nextId, clock>>
        /\ RecordDb("completeBusinessRegistration", userId, businessId, paymentDetails,
                    updateDocAccepts(path, data))

updateBusiness(userId, businessId, updateData) ==
    LET data == cleanFirestoreData(ObjectAssign(updateData,
                                                Obj([updatedAt |-> ServerTimestamp])))
        path == Path(userId, businessId)
    IN  /\ docs' = IF updateDocAccepts(path, data) THEN updateDoc(path, data) ELSE docs
        /\ UNCHANGED <<nextId, clock>>
        /\ RecordDb("updateBusiness", userId, businessId, updateData,
                    updateDocAccepts(path, data))

NotFound == [t |-> "error", v |-> "Business draft not found"]

\* getBusinessDraft: the document's data, or the error it throws
getBusinessDraft(userId, businessId) ==
    IF Path(userId, businessId) \in DOMAIN docs
    THEN docs[Path(userId, businessId)]
    ELSE NotFound

\* time passes between two calls
Tick ==
    /\ clock < MaxClock
    /\ clock' = clock + 1
    /\ UNCHANGED <<docs, nextId>>
    /\ RecordDb("tick", "none", 0, Undefined, TRUE)

(* What callers pass.  BusinessData leaves every field optional, so a draft *)
(* may carry undefined under any key, at any depth; it may also carry a     *)
(* status and paymentDetails of its own.                                    *)

PaymentA == Obj([amount |-> Num(99), currency |-> Str("usd"), paymentMethod |-> Str("card"),
                 status |-> Str("succeeded"), stripePaymentIntentId |-> Str("pi_1")])
PaymentB == Obj([amount |-> Num(250), currency |-> Str("usd"), paymentMethod |-> Str("card"),
                 status |-> Str("succeeded"), stripePaymentIntentId |-> Str("pi_2")])
PaymentInputs == {PaymentA, PaymentB}

DraftInputs ==
    { Obj([country |-> Obj([name |-> Str("US")]),
           company |-> Undefined,
           owner |-> Arr(<<Obj([id |-> Str("o1"), fullName |-> Str("Ann"),
                                ownership |-> Str("100"), isCEO |-> Undefined])>>),
           status |-> Str("completed")]),
      Obj([country |-> Obj([name |-> Str("DE")]),
           package |-> Obj([name |-> Str("Pro"), price |-> Num(250)])]),
      Obj([owner |-> Arr(<<Undefined>>)]) }

UpdateInputs ==
    { Obj([company |-> Obj([name |-> Str("Acme"), type |-> Str("LLC"),
                            industry |-> Undefined]),
           address |-> Undefined]),
      Obj([status |-> Str("draft")]),
      Obj([status |-> Str("completed")]),
      Obj([paymentDetails |-> Obj([amount |-> Num(1)])]) }

NextDb ==
    \/ \E u \in Users, d \in DraftInputs : saveBusinessDraft(u, d)
    \/ \E u \in Users, b \in BusinessIds, pd \in PaymentInputs :
           completeBusinessRegistration(u, b, pd)
    \/ \E u \in Users, b \in BusinessIds, ud \in UpdateInputs : updateBusiness(u, b, ud)
    \/ Tick

---------------------------------------------------------------------------
(* utils/firebase.ts: uploadDocument.  A call computes its path from        *)
(* Date.now() and then awaits uploadBytes and getDownloadURL, so several    *)
(* calls can be in flight together.                                         *)

MaxUploads == 2   \* uploadDocument calls in a run

UploadCalls == 1..MaxUploads
UploadUsers == {"u1", "u2"}

\* File: its name, as characters, and its bytes
UploadFiles ==
    { [name |-> <<"a", ".", "p", "n", "g">>, bytes |-> "bytes-a"],
      [name |-> <<"b", ".", "p", "n", "g">>, bytes |-> "bytes-b"],
      [name |-> <<"c", ".", "v", "2", ".", "p", "d", "f">>, bytes |-> "bytes-c"] }

\* file.name.split('.').pop(): what follows the last dot, the whole name without one
RECURSIVE LastSegment(_, _)
LastSegment(chars, acc) ==
    IF chars = <<>> THEN acc
    ELSE IF Head(chars) = "." THEN LastSegment(Tail(chars), <<>>)
    ELSE LastSegment(Tail(chars), Append(acc, Head(chars)))

FileExtension(file) == LastSegment(file.name, <<>>)

\* `users/${userId}/documents/${Date.now()}.${fileExtension}`
FilePath(userId, now, file) ==
    <<"users/", userId, "/documents/">> \o NumberToString(now)
        \o <<".">> \o FileExtension(file)

\* the download URL of the object at a path
DownloadURL(path) == <<"https://storage/o/">> \o path

IdleUpload == [pc |-> "idle", user |-> "none", file |-> "none", path |-> <<>>, url |-> <<>>]

UploadFrame ==
    UNCHANGED <<currentStep, formData, hasRegisteredBusiness, showRegistration,
                sessionStorage, renderedStep, event, docs, nextId, clock, dbEvent,
                checkout>>

\* the call up to its first await: the path is fixed from Date.now()
uploadDocument(c, userId, file) ==
    /\ uploads[c].pc = "idle"
    /\ uploads' = [uploads EXCEPT ![c] =
                      [pc |-> "named", user |-> userId, file |-> file.bytes,
                       path |-> FilePath(userId, clock, file), url |-> <<>>]]
    /\ UNCHANGED bucket
    /\ UploadFrame

\* await uploadBytes(storageRef, file): the object at the path is (re)written
UploadBytes(c) ==
    /\ uploads[c].pc = "named"
    /\ bucket' = [p \in DOMAIN bucket \cup {uploads[c].path} |->
                     IF p = uploads[c].path
                     THEN [bytes |-> uploads[c].file, by |-> c]
                     ELSE bucket[p]]
    /\ uploads' = [uploads EXCEPT ![c].pc = "stored"]
    /\ UploadFrame

\* await getDownloadURL(storageRef); return downloadURL
GetDownloadURL(c) ==
    /\ uploads[c].pc = "stored"
    /\ uploads' = [uploads EXCEPT ![c].pc = "done", ![c].url = DownloadURL(uploads[c].path)]
    /\ UNCHANGED bucket
    /\ UploadFrame

\* either await rejects: throw new Error("Failed to upload document")
UploadFails(c) ==
    /\ uploads[c].pc \in {"named", "stored"}
    /\ uploads' = [uploads EXCEPT ![c].pc = "failed"]
    /\ UNCHANGED bucket
    /\ UploadFrame

InitUpload ==
    /\ uploads = [c \in UploadCalls |-> IdleUpload]
    /\ bucket = <<>>

---------------------------------------------------------------------------
(* The checkout route: POST(req).  One request is followed from its arrival *)
(* through req.json() and stripe.checkout.sessions.create to its response.  *)

\* a request body that is not JSON
Unparsable == [t |-> "text", v |-> "not json"]

CheckoutAmounts ==
    { Num(0), Num(150), Num(0 - 1), Str(<<"2", "5">>), Str(<<"x">>), Undefined }

CheckoutBodies ==
    { Obj([amount |-> a, businessId |-> Str(b), userId |-> Str(u)]) :
          a \in CheckoutAmounts, b \in {"b1", "b2"}, u \in {"u1", "u2"} }
        \cup {Null, Unparsable}

SessionIds == {"cs_1", "cs_2"}
ProviderErrors == {"invalid_request_error: Invalid integer", "api_connection_error"}

\* ToNumber, as the * operator applies it to its operand
ToNumber(x) ==
    IF x.t = "number" THEN x
    ELSE IF x.t = "null" THEN Num(0)
    ELSE IF x.t = "string" /\ \A i \in 1..Len(x.v) : IsDigit(x.v[i])
         THEN Num(ParseDigits(x.v, 0))
    ELSE NaN

\* amount * 100
Times100(amount) ==
    LET n == ToNumber(amount) IN IF n = NaN THEN NaN ELSE Num(n.v * 100)

\* the same, without the conversion to cents
LineItemsUnscaled(amount) ==
    Arr(<< Obj([price_data |->
                    Obj([currency |-> Str("usd"),
                         product_data |-> Obj([name |-> Str("Business Registration")]),
                         unit_amount |-> ToNumber(amount)]),
                quantity |-> Num(1)]) >>)

LineItems(amount) ==
    Arr(<< Obj([price_data |->
                    Obj([currency |-> Str("usd"),
                         product_data |-> Obj([name |-> Str("Business Registration")]),
                         unit_amount |-> Times100(amount)]),
                quantity |-> Num(1)]) >>)

\* the argument of stripe.checkout.sessions.create
SessionParams(body) ==
    Obj([payment_method_types |-> Arr(<<Str("card")>>),
         line_items |-> LineItems(Get(body, "amount")),
         mode |-> Str("payment"),
         metadata |-> Obj([businessId |-> Get(body, "businessId"),
                           userId |-> Get(body, "userId")])])

\* NextResponse.json(body, {status})
JsonResponse(status, body) == [status |-> status, body |-> body]

NoResponse == JsonResponse(0, Undefined)

GenericError == JsonResponse(500, Obj([error |-> Str("Error creating checkout session")]))

IdleCheckout ==
    [pc |-> "idle", body |-> Undefined, params |-> Undefined,
     session |-> "none", caught |-> "none", response |-> NoResponse]

CheckoutFrame ==
    UNCHANGED <<currentStep, formData, hasRegisteredBusiness, showRegistration,
                sessionStorage, renderedStep, event, docs, nextId, clock, dbEvent,
                uploads, bucket>>

\* a request arrives; the handler awaits req.json()
POST(body) ==
    /\ checkout.pc \in {"idle", "responded"}
    /\ checkout' = [IdleCheckout EXCEPT !.pc = "parsing", !.body = body]
    /\ CheckoutFrame

\* const { amount, businessId, userId } = await req.json(), then the call to the
\* provider is made; a body that is not JSON, or is null, throws into the catch
ReqJson ==
    /\ checkout.pc = "parsing"
    /\ IF checkout.body.t = "object"
       THEN checkout' = [checkout EXCEPT !.pc = "creating",
                                         !.params = SessionParams(checkout.body)]
       ELSE checkout' = [checkout EXCEPT !.pc = "responded",
                                         !.caught = "SyntaxError or TypeError",
                                         !.response = GenericError]
    /\ CheckoutFrame

UnitAmount(params) == params.v.line_items.v[1].v.price_data.v.unit_amount

\* the provider creates the session: return NextResponse.json({ sessionId: session.id })
SessionCreated(id) ==
    /\ checkout.pc = "creating"
    /\ UnitAmount(checkout.params).t = "number"
    /\ UnitAmount(checkout.params).v >= 0
    /\ checkout' = [checkout EXCEPT !.pc = "responded", !.session = id,
                                    !.response = JsonResponse(200, Obj([sessionId |-> Str(id)]))]
    /\ CheckoutFrame

\* the provider call rejects: the catch logs the error and answers with the generic body
SessionRejected(detail) ==
    /\ checkout.pc = "creating"
    /\ checkout' = [checkout EXCEPT !.pc = "responded", !.caught = detail,
                                    !.response = GenericError]
    /\ CheckoutFrame

NextCheckout ==
    \/ \E body \in CheckoutBodies : POST(body)
    \/ ReqJson
    \/ \E id \in SessionIds : SessionCreated(id)
    \/ \E detail \in ProviderErrors : SessionRejected(detail)

---------------------------------------------------------------------------
(* Page events, wired as renderRegistrationStep wires them.  A UI event    *)
(* runs its handler and React re-renders before the next event.            *)

ClickNext(stepData) ==
    /\ showRegistration /\ renderedStep \in 1..5
    /\ handleNext(stepData) /\ Render /\ Record("handleNext", stepData)

ClickReviewNext ==
    /\ showRegistration /\ renderedStep = 6
    /\ reviewOnNext /\ Render /\ Record("reviewOnNext", Undefined)

\* handleBack is handed to the views of steps 2..7; it also answers a call at
\* step 1 (its first branch), which is what retreat() at step 1 is
ClickBack ==
    /\ showRegistration /\ renderedStep \in 1..7
    /\ handleBack /\ Render /\ Record("handleBack", Undefined)

ClickEdit(step) ==
    /\ showRegistration /\ renderedStep = 6
    /\ handleEdit(step) /\ Render /\ Record("handleEdit", Num(step))

PaymentComplete ==
    /\ showRegistration /\ renderedStep = 7
    /\ handlePaymentComplete /\ Render /\ Record("handlePaymentComplete", Undefined)

\* a visit or reload of /dashboard/business, with or without ?register=true
Mount(register) ==
    /\ mountEffects(register) /\ Render /\ Record("mount", Bool(register))

\* navigation to ?register=true while the page stays mounted
ShowRegistration ==
    /\ ~showRegistration
    /\ showRegistrationEffect /\ Render /\ Record("showRegistration", Undefined)

\* navigation to /dashboard/business while the page stays mounted
LeaveRegistration ==
    /\ showRegistration
    /\ showRegistration' = FALSE
    /\ UNCHANGED <<currentStep, formData, hasRegisteredBusiness, sessionStorage>>
    /\ Render /\ Record("leaveRegistration", Undefined)

MaxCallsPerRender == 2   \* invocations of a handler between two renders

\* onNext of the rendered step view called; the re-render is still to come
InvokeNext(stepData) ==
    /\ showRegistration /\ renderedStep \in 1..5
    /\ currentStep - renderedStep < MaxCallsPerRender
    /\ handleNext(stepData) /\ UNCHANGED renderedStep /\ Record("handleNext", stepData)

InvokeReviewNext ==
    /\ showRegistration /\ renderedStep = 6
    /\ reviewOnNext /\ UNCHANGED renderedStep /\ Record("reviewOnNext", Undefined)

\* onBack of the rendered step view (steps 2..7) called; the re-render is still to come
InvokeBack ==
    /\ showRegistration /\ renderedStep \in 2..7
    /\ renderedStep - currentStep < MaxCallsPerRender
    /\ handleBack /\ UNCHANGED renderedStep /\ Record("handleBack", Undefined)

\* React re-renders BusinessPage with the state the updaters left
Rerender ==
    /\ renderedStep # currentStep
    /\ renderedStep' = currentStep
    /\ UNCHANGED <<currentStep, formData, hasRegisteredBusiness, showRegistration,
                   sessionStorage, event, docs, nextId, clock, dbEvent,
                   uploads, bucket, checkout>>

InitPage ==
    /\ currentStep = 1
    /\ formData = EmptyObj
    /\ hasRegisteredBusiness = FALSE
    /\ showRegistration = FALSE
    /\ sessionStorage = <<>>
    /\ renderedStep = 1
    /\ event = [op |-> "mount", at |-> 1, arg |-> Bool(FALSE), after |-> "none"]

InitDb ==
    /\ docs = <<>>
    /\ nextId = 1
    /\ clock = 1
    /\ dbEvent = [op |-> "none", user |-> "none", id |-> 0, arg |-> Undefined, ok |-> FALSE]

InitCheckout == checkout = IdleCheckout

Init == InitPage /\ InitDb /\ InitUpload /\ InitCheckout

Next ==
    \/ \E stepData \in StepInputs(renderedStep) : ClickNext(stepData)
    \/ ClickReviewNext
    \/ ClickBack
    \/ \E step \in EditTargets : ClickEdit(step)
    \/ PaymentComplete
    \/ \E register \in BOOLEAN : Mount(register)
    \/ ShowRegistration
    \/ LeaveRegistration

Spec == Init /\ [][Next]_vars

SpecDb == Init /\ [][NextDb]_vars

\* The wizard with React's re-render as a step of its own: a handler invoked again
\* before the re-render is the closure of the last render, with its currentStep.
NextCalls ==
    \/ \E stepData \in StepInputs(renderedStep) : InvokeNext(stepData)
    \/ InvokeReviewNext
    \/ InvokeBack
    \/ Rerender
    \/ \E register \in BOOLEAN : Mount(register)

SpecCalls == Init /\ [][NextCalls]_vars

NextUpload ==
    \/ \E c \in UploadCalls, u \in UploadUsers, f \in UploadFiles : uploadDocument(c, u, f)
    \/ \E c \in UploadCalls : UploadBytes(c)
    \/ \E c \in UploadCalls : GetDownloadURL(c)
    \/ \E c \in UploadCalls : UploadFails(c)
    \/ Tick

SpecUpload == Init /\ [][NextUpload]_vars

SpecCheckout == Init /\ [][NextCheckout]_vars

---------------------------------------------------------------------------
(* Step controller and draft store: properties *)

\* forward navigation as the views are wired: onNext of steps 1..5 (handleNext),
\* Review's onNext at step 6, Payment's onComplete at step 7
AdvanceOps == {"handleNext", "reviewOnNext", "handlePaymentComplete"}

\* C1: advance from step N (1..7) yields step N+1; retreat at step 1 leaves the
\* wizard (navigation away) with the step still 1; retreat at N > 1 yields N-1.
AdvanceRetreatStep ==
    [][ /\ (event'.op \in AdvanceOps =>
               currentStep \in 1..7 /\ currentStep' = currentStep + 1)
        /\ (event'.op = "handleBack" /\ currentStep = 1 =>
               currentStep' = 1 /\ showRegistration /\ ~showRegistration')
        /\ (event'.op = "handleBack" /\ currentStep > 1 =>
               currentStep' = currentStep - 1 /\ showRegistration') ]_vars

\* retreat was called at step 1 of a wizard that had been advanced and walked back
RetreatAtStepOneExits ==
    /\ event.op = "handleBack" /\ event.at = 1
    /\ currentStep = 1 /\ ~showRegistration
    /\ "country" \in DOMAIN formData.v

\* C2: while the wizard is shown and not completed, after each advance, retreat or
\* edit the persisted step entry equals the current step, and after an advance that
\* merges data the persisted data entry is the serialized current draft.
SavedAfterEveryMutation ==
    (/\ showRegistration /\ ~hasRegisteredBusiness
     /\ event.op \in {"handleNext", "reviewOnNext", "handleBack", "handleEdit"})
    => /\ GetItem(sessionStorage, StepKey) = Str(NumberToString(currentStep))
       /\ (event.op = "handleNext" =>
              GetItem(sessionStorage, DataKey) = JSONStringify(formData))

\* C3: complete() sets the flag, forces step 8 and removes both entries, and no
\* other transition removes an entry that was present.
OnlyCompletePurges ==
    [][ /\ (event'.op = "handlePaymentComplete" =>
               /\ hasRegisteredBusiness' /\ currentStep' = 8
               /\ StepKey \notin DOMAIN sessionStorage'
               /\ DataKey \notin DOMAIN sessionStorage')
        /\ (DOMAIN sessionStorage \ DOMAIN sessionStorage' # {} =>
               event'.op = "handlePaymentComplete") ]_vars

\* complete() has just run on a session that held a draft
CompletePurgedSession ==
    /\ event.op = "handlePaymentComplete" /\ event.at = 7
    /\ currentStep = 8 /\ hasRegisteredBusiness
    /\ DOMAIN sessionStorage = {}
    /\ "address" \in DOMAIN formData.v

\* C4 (as claimed): after retreat() at step 1 neither persisted entry remains.
RetreatAtStepOnePurges ==
    (event.op = "handleBack" /\ event.at = 1) => DOMAIN sessionStorage = {}

\* C4 (amended): retreat() at step 1 leaves the wizard and keeps the session:
\* both persisted entries stay exactly as they were.
RetreatAtStepOneKeepsSession ==
    [][ (event'.op = "handleBack" /\ event'.at = 1) =>
            /\ ~showRegistration'
            /\ sessionStorage' = sessionStorage
            /\ StepKey \in DOMAIN sessionStorage' ]_vars

\* the wizard was left at step 1 with both entries still stored
SessionSurvivesExit ==
    /\ event.op = "handleBack" /\ event.at = 1 /\ ~showRegistration
    /\ {StepKey, DataKey} \subseteq DOMAIN sessionStorage

\* the draft field each data-entry step owns
StepField(step) ==
    CASE step = 1 -> "country"
      [] step = 2 -> "package"
      [] step = 3 -> "company"
      [] step = 4 -> "owner"
      [] step = 5 -> "address"
      [] OTHER -> "none"

\* draft a and draft b agree on field k: both lack it, or both hold the same value
SameField(a, b, k) ==
    /\ (k \in DOMAIN a.v) = (k \in DOMAIN b.v)
    /\ Get(a, k) = Get(b, k)

AllFields == {"country", "package", "company", "owner", "address"}
FieldsOf(a, b) == DOMAIN a.v \cup DOMAIN b.v \cup AllFields

\* C5: edit(targetStep) jumps to targetStep and changes no field of the draft; the
\* advance that follows moves to targetStep+1 and changes no field of another step.
EditKeepsDraftThenAdvances ==
    [][ /\ (event'.op = "handleEdit" =>
               currentStep' = event'.arg.v /\ formData' = formData)
        /\ (event'.op \in AdvanceOps /\ event'.after = "handleEdit" =>
               /\ currentStep' = event.arg.v + 1
               /\ \A k \in FieldsOf(formData, formData') \ {StepField(event.arg.v)} :
                     SameField(formData', formData, k)) ]_vars

\* step 2 was edited from the review and advanced again, the later steps' data kept
AdvancedAfterEdit ==
    /\ event.op = "handleNext" /\ event.after = "handleEdit" /\ event.at = 2
    /\ currentStep = 3
    /\ {"company", "owner", "address"} \subseteq DOMAIN formData.v

\* the merge table: the keys taken from stepData at each step
ContractKeys(step) ==
    CASE step = 1 -> {"name"}
      [] step = 2 -> {"name", "price"}
      [] step = 3 -> {"name", "type", "industry"}
      [] step = 4 -> {"id", "fullName", "ownership", "isCEO", "birthDate", "document"}
      [] step = 5 -> {"street", "city", "state", "postalCode", "country"}
      [] OTHER -> {}

ContractValue(step, stepData) ==
    IF step = 4
    THEN Arr([i \in 1..Len(stepData.v) |->
                 Obj([k \in ContractKeys(4) |-> Get(stepData.v[i], k)])])
    ELSE Obj([k \in ContractKeys(step) |-> Get(stepData, k)])

\* C6: advance(stepData) at step k in 1..5 replaces exactly the field of step k by
\* the contract's shape of stepData and leaves every other field as it was; advance
\* at step 6 or 7 leaves the draft as it was.
MergeContract ==
    [][ /\ (event'.op = "handleNext" =>
               /\ event'.at \in 1..5
               /\ DOMAIN formData'.v = DOMAIN formData.v \cup {StepField(event'.at)}
               /\ formData'.v[StepField(event'.at)] = ContractValue(event'.at, event'.arg)
               /\ \A k \in DOMAIN formData.v \ {StepField(event'.at)} :
                     formData'.v[k] = formData.v[k])
        /\ (event'.op \in {"reviewOnNext", "handlePaymentComplete"} =>
               event'.at \in {6, 7} /\ formData' = formData) ]_vars

\* step 4 was advanced again with one owner over a draft that already had an address
OwnerSequenceReplaced ==
    /\ event.op = "handleNext" /\ event.at = 4
    /\ Len(formData.v["owner"].v) = 1
    /\ "address" \in DOMAIN formData.v

\* a value JSON spells in full: no undefined and no File at any depth
RECURSIVE Plain(_)
Plain(x) ==
    CASE x.t = "object" -> \A k \in DOMAIN x.v : Plain(x.v[k])
      [] x.t = "array" -> \A i \in 1..Len(x.v) : Plain(x.v[i])
      [] x.t \in {"undefined", "file"} -> FALSE
      [] OTHER -> TRUE

\* C7: a reload of the shown, uncompleted wizard resumes at the step and the
\* (plain) draft that were current before it; with no entry stored it starts at
\* step 1 with an empty draft.
ReloadResumesSession ==
    [][ event'.op = "mount" =>
            /\ (showRegistration /\ ~hasRegisteredBusiness /\ Plain(formData) =>
                   currentStep' = currentStep /\ formData' = formData)
            /\ (DOMAIN sessionStorage = {} =>
                   currentStep' = 1 /\ formData' = EmptyObj) ]_vars

\* the part of C7 that holds: what save(step, draft) wrote is what a reload loads
ReloadLoadsWhatWasSaved ==
    [][ event'.op = "mount" =>
            /\ (StepKey \in DOMAIN sessionStorage =>
                   \A s \in 0..9 : sessionStorage[StepKey] = Str(NumberToString(s))
                                      => currentStep' = s)
            /\ (DataKey \in DOMAIN sessionStorage /\ Plain(formData)
                /\ sessionStorage[DataKey] = JSONStringify(formData) =>
                   formData' = formData)
            /\ (DOMAIN sessionStorage = {} =>
                   currentStep' = 1 /\ formData' = EmptyObj) ]_vars

---------------------------------------------------------------------------
(* Data-access layer: properties *)

Status(doc) == Get(doc, "status")
HasPaymentDetails(doc) == "paymentDetails" \in DOMAIN doc.v

\* C8: in every state of a business document, whatever createDraft, updateDraft and
\* completeRegistration calls were made, status never moves from completed back,
\* and a completed document has paymentDetails.
StatusOnlyDraftToCompleted ==
    [][ /\ \A p \in DOMAIN docs :
               Status(docs[p]) = Str("completed") => Status(docs'[p]) = Str("completed")
        /\ \A p \in DOMAIN docs' :
               Status(docs'[p]) = Str("completed") => HasPaymentDetails(docs'[p]) ]_vars

\* undefined occurs in x only as the value of an object's property (an optional
\* field left unset), never as an element of a sequence
RECURSIVE UndefinedOnlyInProperties(_)
UndefinedOnlyInProperties(x) ==
    CASE x.t = "object" ->
            \A k \in DOMAIN x.v :
                x.v[k] = Undefined \/ UndefinedOnlyInProperties(x.v[k])
      [] x.t = "array" ->
            \A i \in 1..Len(x.v) :
                x.v[i] # Undefined /\ UndefinedOnlyInProperties(x.v[i])
      [] OTHER -> TRUE

\* C9: a draft written via createDraft, whatever status it carries and wherever it
\* leaves fields undefined, reads back via getDraft as a document with status
\* "draft" and with undefined at no depth.
CreatedDraftReadsBackClean ==
    (/\ dbEvent.op = "saveBusinessDraft"
     /\ (dbEvent.ok \/ UndefinedOnlyInProperties(dbEvent.arg)))
    => LET doc == getBusinessDraft(dbEvent.user, dbEvent.id)
       IN  /\ dbEvent.ok
           /\ doc.t = "object"
           /\ Status(doc) = Str("draft")
           /\ ~HasUndefined(doc)

\* a draft carrying status "completed" and undefined inside its owner sequence
\* has just been written
CompletedDraftWithHolesWritten ==
    /\ dbEvent.op = "saveBusinessDraft" /\ dbEvent.ok
    /\ Status(dbEvent.arg) = Str("completed")
    /\ HasUndefined(Get(dbEvent.arg, "owner"))
    /\ getBusinessDraft(dbEvent.user, dbEvent.id).t = "object"

\* paymentDetails as completeRegistration attaches them: stamped with createdAt
PaymentAttached(doc) ==
    HasPaymentDetails(doc) /\ "createdAt" \in DOMAIN Get(doc, "paymentDetails").v

\* C10: once completeRegistration has attached paymentDetails to a document, no
\* later completeRegistration or updateDraft changes them.
PaymentDetailsImmutable ==
    [][ \A p \in DOMAIN docs :
            PaymentAttached(docs[p]) =>
                Get(docs'[p], "paymentDetails") = Get(docs[p], "paymentDetails") ]_vars

---------------------------------------------------------------------------
(* Wizard: the range of the step, and the session after completion *)

\* the step never leaves 1..8
StepInRange == currentStep \in 1..8

\* C13: in every reachable state the current step is an integer in 1..8, whatever
\* advance, retreat, edit, complete and restore operations led to it, and step 8
\* is reached only through complete(): never by another handler, and never by a
\* page load restoring it from the Draft Store.
StepEightOnlyByComplete ==
    [][ /\ currentStep' \in 1..8
        /\ currentStep' = 8 =>
              \/ event'.op = "handlePaymentComplete"
              \/ currentStep = 8 /\ event'.op # "mount" ]_vars

\* the same, a page load restoring a stored step 8 allowed
StepEightByCompleteOrRestore ==
    [][ /\ currentStep' \in 1..8
        /\ currentStep' = 8 =>
              \/ event'.op = "handlePaymentComplete"
              \/ currentStep = 8 ]_vars

\* the step entry holds "8" only once the wizard has been shown again after completion
StoredEightOnlyAfterCompletion ==
    [][ (GetItem(sessionStorage', StepKey) = Str(<<"8">>)
            /\ GetItem(sessionStorage, StepKey) # Str(<<"8">>))
        => (currentStep = 8 /\ event'.op = "showRegistration") ]_vars

\* C14: once complete() has purged the Draft Store the session stays cleared: no
\* later event on the page (leaving the registration view, showing it again) writes
\* the step or the data entry, and a reload then starts at step 1 with an empty draft.
SessionStaysClearedAfterComplete ==
    [][ currentStep = 8 =>
            IF event'.op = "mount"
            THEN currentStep' = 1 /\ formData' = EmptyObj
            ELSE DOMAIN sessionStorage' = {} ]_vars

\* C15: starting from step 1 with an empty draft, whenever the wizard is at step 6
\* (Review) or 7 (Payment) the draft holds all five of country, package, company,
\* owner and address, also when advance is invoked more than once before the
\* component re-renders.
DraftCompleteFromReview ==
    currentStep \in {6, 7} => AllFields \subseteq DOMAIN formData.v

---------------------------------------------------------------------------
(* Document upload: properties *)

Named(c) == uploads[c].pc # "idle"

\* C11: any two uploadDocument calls, by the same or by different users, in flight
\* together or not, write to distinct object paths, and no upload overwrites the
\* object another upload stored.
UploadPathsDistinct ==
    /\ \A c1, c2 \in UploadCalls :
           (c1 # c2 /\ Named(c1) /\ Named(c2)) => uploads[c1].path # uploads[c2].path
    /\ \A c \in UploadCalls :
           uploads[c].pc \in {"stored", "done"} => bucket[uploads[c].path].by = c

---------------------------------------------------------------------------
(* Checkout route: properties *)

\* C12: every request ends in one of two responses: when the provider created the
\* session, 200 with {sessionId} for a single line item of quantity 1 whose
\* unit_amount is amount x 100, with businessId and userId as metadata; when the
\* provider call or the parsing of the request failed, 500 with exactly
\* {error: "Error creating checkout session"}: no sessionId, no error detail.
CheckoutRespondsOneOfTwo ==
    checkout.pc = "responded" =>
        \/ /\ checkout.session \in SessionIds
           /\ checkout.caught = "none"
           /\ checkout.response.status = 200
           /\ checkout.response.body = Obj([sessionId |-> Str(checkout.session)])
           /\ Len(checkout.params.v.line_items.v) = 1
           /\ checkout.params.v.line_items.v[1].v.quantity = Num(1)
           /\ UnitAmount(checkout.params).t = "number"
           /\ (checkout.body.v.amount.t = "number" =>
                  UnitAmount(checkout.params).v = checkout.body.v.amount.v * 100)
           /\ checkout.params.v.metadata =
                  Obj([businessId |-> checkout.body.v.businessId,
                       userId |-> checkout.body.v.userId])
        \/ /\ checkout.session = "none"
           /\ checkout.caught # "none"
           /\ checkout.response.status = 500
           /\ DOMAIN checkout.response.body.v = {"error"}
           /\ checkout.response.body.v.error = Str("Error creating checkout session")

\* a request for 150 was answered 200 for a unit_amount of 15000
CheckoutCreatedFor150 ==
    /\ checkout.pc = "responded"
    /\ checkout.response.status = 200
    /\ checkout.body.v.amount = Num(150)
    /\ UnitAmount(checkout.params) = Num(15000)

====
